---- MODULE Spec2Model ----
(***************************************************************************)
(* TL2 software transactional memory (src/stm_imprementation_rust/src).    *)
(*                                                                         *)
(* Threads run STM::write_transaction / STM::read_transaction over one     *)
(* shared Memory.  Every access to shared state (one atomic operation on   *)
(* a lock word or on the clock, one byte of mem) is one step, so that      *)
(* every interleaving of the threads at that grain is explored.  Thread-   *)
(* local work of the same call is folded into the step of the shared       *)
(* access that follows it.  Atomics are interleaved sequentially           *)
(* consistently.                                                           *)
(***************************************************************************)
EXTENDS Integers, Sequences, FiniteSets, TLC

\* ---------------------------------------------------------------- constants
\* STRIPE_SIZE and MEM_SIZE are build-time parameters (powers of two; 8 and
\* 512 in the source).  The model is the build with 2-byte stripes and two
\* stripes, which keeps every loop over the bytes of a stripe.
STRIPE_SIZE == 2
MEM_SIZE == 4
\* the lock bit of a versioned-lock word: 1 << 63 in the source; the word is
\* kept as one unsigned integer, narrowed to 31 bits (lock bit 1 << 30)
LOCK_BIT == 1073741824
\* the philosophers of main.rs, one chopstick (stripe) each: 8 in the
\* source, 2 here, as many as there are stripes
NUM_PHILOSOPHERS == 2

\* the global clock is capped: inc_global_clock is disabled at MaxClock
MaxClock == 2

\* the threads: two that call either driver with bodies of their choice
\* (philosophers under SpecPhil), and the observer of main.rs
Workers == {"p1", "p2"}
Threads == Workers \cup {"obs"}

\* the bodies given to read_transaction; the others go to write_transaction
ReadBodies == {"snap", "peek", "oddr", "farr"}
Reads(r) == r.prog \in ReadBodies

\* the stripe addresses and the bytes of the memory
Addrs == {a \in 0..(MEM_SIZE - 1) : a % STRIPE_SIZE = 0}
Offsets == 0..(STRIPE_SIZE - 1)
ByteAddrs == 0..(MEM_SIZE - 1)

\* what the last call of the body on its transaction returned: a load
\* returns Some(val) or None, a store returns nothing
NoRet == [op |-> "none", a |-> 0, some |-> FALSE, val |-> [i \in 0..(STRIPE_SIZE - 1) |-> 0]]
RetNone(a) == [op |-> "load", a |-> a, some |-> FALSE, val |-> NoRet.val]
RetSome(a, v) == [op |-> "load", a |-> a, some |-> TRUE, val |-> v]
RetStore(a) == [op |-> "store", a |-> a, some |-> FALSE, val |-> NoRet.val]
\* the call panicked: it did not return
RetPanic(a) == [op |-> "panic", a |-> a, some |-> FALSE, val |-> NoRet.val]
\* [b; STRIPE_SIZE]
Fill(b) == [i \in Offsets |-> b]
Zero == Fill(0)
Empty == [a \in {} |-> Zero]
Put(f, a, v) == [x \in (DOMAIN f) \cup {a} |-> IF x = a THEN v ELSE f[x]]

RECURSIVE Perms(_)
Perms(S) == IF S = {} THEN {<<>>}
            ELSE UNION {{<<a>> \o p : p \in Perms(S \ {a})} : a \in S}

VARIABLES
    mem,            \* Memory.mem: byte address -> byte
    lock_ver,       \* Memory.lock_ver: stripe index -> versioned-lock word
    global_clock,   \* Memory.global_clock
    th,             \* thread -> its transaction object, position and locals
    commits,        \* history: the attempts that passed validation
    nfail           \* history: the attempts whose validate_read_set failed

shared == <<mem, lock_ver, global_clock>>
vars == <<mem, lock_ver, global_clock, th, commits, nfail>>

\* A thread outside a driver call.  Fields: the transaction object
\* (read_version, conflict, read_set, write_set, locked); the position pc
\* and the locals of the call in progress (addr, idx, buf: the load in
\* progress; order: the iteration order of write_set; k: the position of the
\* running loop; todo: what validate_read_set has still to visit;
\* new_version; after: where Drop leads); the client (prog, bp: the body
\* and its position; phase; outcome, result: what the driver returned); history of the attempt (tag: what the body returned; vals: the
\* stripes loaded from memory; last_store; took, held, clears: the locks
\* set, still set, and how often each was cleared; stage: the steps of the
\* commit protocol passed; solo: no other thread has been inside a driver
\* call since this call began).
Idle0 ==
    [pc |-> "idle", read_version |-> 0, conflict |-> FALSE, read_set |-> {},
     write_set |-> Empty, locked |-> <<>>,
     addr |-> 0, idx |-> 0, buf |-> Zero, order |-> <<>>, k |-> 0,
     todo |-> {}, new_version |-> 0, after |-> "idle", ret |-> NoRet,
     prog |-> "none", bp |-> 0, phase |-> "pick", outcome |-> "none",
     result |-> FALSE, tag |-> "none", vals |-> Empty, last_store |-> Empty,
     took |-> {}, held |-> {}, clears |-> [a \in Addrs |-> 0], stage |-> {},
     solo |-> FALSE]

Init ==
    /\ mem = [b \in ByteAddrs |-> 0]
    /\ lock_ver = [s \in {a \div STRIPE_SIZE : a \in Addrs} |-> 0]
    /\ global_clock = 0
    /\ th = [t \in Threads |-> Idle0]
    /\ commits = {}
    /\ nfail = 0

\* ------------------------------------------------------------------- Memory
Stripe(a) == a \div STRIPE_SIZE

get_version(a) == lock_ver[Stripe(a)] % LOCK_BIT

\* faulty variant: a stripe of the snapshot's own version counts as modified
test_not_modify_strict(a, version) == lock_ver[Stripe(a)] < version

\* faulty variant: the version alone is compared, the lock bit masked off
test_not_modify_ver(a, version) == lock_ver[Stripe(a)] % LOCK_BIT <= version

test_not_modify(a, version) == lock_ver[Stripe(a)] <= version

lock_bit(val) == (val \div LOCK_BIT) % 2

\* faulty variant: the lock bit is set without a test (fetch_or)
lock_bit_setter_always(val) ==
    {IF lock_bit(val) = 0 THEN val + LOCK_BIT ELSE val}

\* faulty variant: the closure tests the whole word, not the lock bit
lock_bit_setter_word(val) == IF val = 0 THEN {val + LOCK_BIT} ELSE {}

\* lock_addr: the closure's Some(val | LOCK_BIT) / None, as {word} / {}
lock_bit_setter(val) == IF lock_bit(val) = 0 THEN {val + LOCK_BIT} ELSE {}

\* faulty variant: unlock_addr stores 0
unlock_word_zero(val) == 0

\* unlock_addr: fetch_and(!LOCK_BIT)
unlock_word(val) == val - lock_bit(val) * LOCK_BIT

\* faulty variant: the clock moves by two
inc_global_clock_two == global_clock + 2

inc_global_clock == global_clock + 1

\* faulty variant: no assertion on the address
Aligned_any(a) == TRUE

\* assert_eq!(addr & (STRIPE_SIZE - 1), 0)
Aligned(a) == a % STRIPE_SIZE = 0

\* the memory orderings the source gives to its atomic accesses and fences
\* (the steps themselves are interleaved sequentially consistently):
\* fetch_update(Relaxed, Relaxed, ..) in lock_addr, on success
lock_addr_ordering == "Relaxed"
\* global_clock.load(Acquire) in ReadTrans::new and WriteTrans::new
snapshot_ordering == "Acquire"
\* lock_ver[stripe].load(Relaxed) in test_not_modify
lock_word_load_ordering == "Relaxed"
\* fence(Acquire) before and fence(SeqCst) after the copy in load
load_fences == <<"Acquire", "SeqCst">>
\* fence(Release) between the two loops of commit
commit_fence == "Release"

\* the bounds check of self.lock_ver[stripe]: an index past the end panics
InRange(a) == Stripe(a) \in DOMAIN lock_ver

\* a panic (failed assertion, index out of bounds) in a call on the
\* transaction of r: the call does not return, the stack unwinds next
Panic(r, a) == [r EXCEPT !.pc = "panic", !.ret = RetPanic(a)]

Set(t, r) == th' = [th EXCEPT ![t] = r]

\* ------------------------------------------------------ leaving an attempt
\* The driver call returns: the transaction object and the locals are gone.
\* A reader's snapshot (read_version, vals) is kept as what it returned.
Returned(t, r) ==
    [Idle0 EXCEPT !.prog = r.prog, !.phase = r.phase, !.outcome = r.outcome,
                  !.result = r.result, !.tag = r.tag,
                  !.took = r.took, !.held = r.held, !.clears = r.clears,
                  !.stage = r.stage, !.solo = r.solo,
                  !.read_version = IF Reads(r) THEN r.read_version ELSE 0,
                  !.vals = IF Reads(r) THEN r.vals ELSE Empty]

Finish(t, r, nxt) ==
    IF nxt = "new" THEN [r EXCEPT !.pc = "new"] ELSE Returned(t, r)

\* faulty variant: WriteTrans has no Drop
Leave_nodrop(t, r, nxt) == Finish(t, r, nxt)

\* `continue` or `return` in write_transaction: write_trans goes out of
\* scope and Drop runs over locked
Leave(t, r, nxt) ==
    IF r.locked = <<>> THEN Finish(t, r, nxt)
    ELSE [r EXCEPT !.pc = "drop", !.after = nxt, !.k = 0]

\* impl Drop for WriteTrans: one unlock_addr per step
drop(t) ==
    LET r == th[t]
        a == r.locked[r.k + 1]
        r1 == [r EXCEPT !.k = r.k + 1,
                        !.held = r.held \ {a},
                        !.clears[a] = r.clears[a] + 1]
    IN /\ r.pc = "drop"
       /\ lock_ver' = [lock_ver EXCEPT ![Stripe(a)] = unlock_word(@)]
       /\ Set(t, IF r.k + 1 = Len(r.locked) THEN Finish(t, r1, r.after) ELSE r1)
       /\ UNCHANGED <<mem, global_clock, commits, nfail>>

\* a panic unwinds the stack of the driver call: the transaction goes out
\* of scope (Drop runs over locked) and the panic leaves the call
unwind(t) ==
    /\ th[t].pc = "panic"
    /\ Set(t, Leave(t, [th[t] EXCEPT !.outcome = "panic"], "idle"))
    /\ UNCHANGED <<shared, commits, nfail>>

\* ------------------------------------------------------------ transactions
Fresh(r) == [Idle0 EXCEPT !.pc = "body", !.read_version = global_clock,
                          !.prog = r.prog, !.phase = r.phase, !.solo = r.solo]

\* faulty variant: the snapshot is taken with fetch_add
ReadTrans_new_tick(t) ==
    /\ Reads(th[t])
    /\ th[t].pc = "new"
    /\ global_clock < MaxClock
    /\ Set(t, Fresh(th[t]))
    /\ global_clock' = global_clock + 1
    /\ UNCHANGED <<mem, lock_ver, commits, nfail>>

ReadTrans_new(t) ==
    /\ Reads(th[t])
    /\ th[t].pc = "new"
    /\ Set(t, Fresh(th[t]))
    /\ UNCHANGED <<shared, commits, nfail>>

WriteTrans_new(t) ==
    /\ ~Reads(th[t])
    /\ th[t].pc = "new"
    /\ Set(t, Fresh(th[t]))
    /\ UNCHANGED <<shared, commits, nfail>>

\* load up to the first test_not_modify
ReadTrans_load(t, r, a) ==
    /\ Reads(r)
    /\ r.pc = "body"
    /\ Set(t, IF ~Aligned(a) THEN Panic(r, a)
              ELSE IF r.conflict THEN [r EXCEPT !.ret = RetNone(a)]
              ELSE IF ~InRange(a) THEN Panic(r, a)
              ELSE IF ~test_not_modify(a, r.read_version)
                   THEN [r EXCEPT !.conflict = TRUE, !.ret = RetNone(a)]
              ELSE [r EXCEPT !.pc = "load_copy", !.addr = a, !.idx = 0,
                             !.buf = Zero, !.ret = NoRet])
    /\ UNCHANGED <<shared, commits, nfail>>

\* faulty variant: an address already in write_set keeps its value
write_set_insert_absent(ws, a, v) == IF a \in DOMAIN ws THEN ws ELSE Put(ws, a, v)

\* self.write_set.insert(addr, val)
write_set_insert(ws, a, v) == Put(ws, a, v)

WriteTrans_store(t, r, a, v) ==
    /\ ~Reads(r)
    /\ r.pc = "body"
    /\ Set(t, IF ~Aligned(a) THEN Panic(r, a)
              ELSE [r EXCEPT !.write_set = write_set_insert(r.write_set, a, v),
                             !.last_store = Put(r.last_store, a, v),
                             !.ret = RetStore(a)])
    /\ UNCHANGED <<shared, commits, nfail>>

WriteTrans_load(t, r, a) ==
    LET r1 == [r EXCEPT !.read_set = r.read_set \cup {a}] IN
    /\ ~Reads(r)
    /\ r.pc = "body"
    /\ Set(t, IF ~Aligned(a) THEN Panic(r, a)
              ELSE IF r.conflict THEN [r EXCEPT !.ret = RetNone(a)]
              ELSE IF a \in DOMAIN r.write_set
                   THEN [r1 EXCEPT !.ret = RetSome(a, r.write_set[a])]
              ELSE IF ~InRange(a) THEN Panic(r1, a)
              ELSE IF ~test_not_modify(a, r.read_version)
                   THEN [r1 EXCEPT !.conflict = TRUE, !.ret = RetNone(a)]
              ELSE [r1 EXCEPT !.pc = "load_copy", !.addr = a, !.idx = 0,
                              !.buf = Zero, !.ret = NoRet])
    /\ UNCHANGED <<shared, commits, nfail>>

\* mem[i] = self.mem.mem[addr + i], one byte per step
load_copy(t) ==
    LET r == th[t]
        r1 == [r EXCEPT !.buf[r.idx] = mem[r.addr + r.idx], !.idx = r.idx + 1]
    IN
    /\ r.pc = "load_copy"
    /\ Set(t, IF r.idx + 1 = STRIPE_SIZE THEN [r1 EXCEPT !.pc = "load_check"]
              ELSE r1)
    /\ UNCHANGED <<shared, commits, nfail>>

\* faulty variant: load returns what it copied without the second test
load_check_skipped(t) ==
    LET r == th[t] IN
    /\ r.pc = "load_check"
    /\ Set(t, [r EXCEPT !.pc = "body", !.addr = 0, !.idx = 0, !.buf = Zero,
                        !.ret = RetSome(r.addr, r.buf),
                        !.vals = Put(r.vals, r.addr, r.buf)])
    /\ UNCHANGED <<shared, commits, nfail>>

\* the second test_not_modify, and the return of load
load_check(t) ==
    LET r == th[t]
        r1 == [r EXCEPT !.pc = "body", !.addr = 0, !.idx = 0, !.buf = Zero]
    IN
    /\ r.pc = "load_check"
    /\ Set(t, IF ~test_not_modify(r.addr, r.read_version)
              THEN [r1 EXCEPT !.conflict = TRUE, !.ret = RetNone(r.addr)]
              ELSE [r1 EXCEPT !.ret = RetSome(r.addr, r.buf),
                              !.vals = Put(r.vals, r.addr, r.buf)])
    /\ UNCHANGED <<shared, commits, nfail>>

\* ------------------------------------------------------------------ drivers
\* faulty variant: Ok is taken without a look at the conflict flag
read_match_ok(tg, c) ==
    CASE tg = "Abort" -> "nil"
      [] tg = "Retry" -> IF c THEN "again" ELSE "nil"
      [] tg = "Ok" -> "go"

\* faulty variant: Retry always loops
write_match_retry(tg, c) ==
    CASE tg = "Abort" -> "nil"
      [] tg = "Retry" -> "again"
      [] tg = "Ok" -> IF c THEN "again" ELSE "go"

\* read_transaction, the match on what the body returned: return None
\* ("nil"), loop again ("again"), or return Some(val) ("go")
read_match(tg, c) ==
    CASE tg = "Abort" -> "nil"
      [] tg = "Retry" -> IF c THEN "again" ELSE "nil"
      [] tg = "Ok" -> IF c THEN "again" ELSE "go"

\* write_transaction, the match on what the body returned: return None
\* ("nil"), loop again ("again"), or go on to the commit protocol ("go")
write_match(tg, c) ==
    CASE tg = "Abort" -> "nil"
      [] tg = "Retry" -> IF c THEN "again" ELSE "nil"
      [] tg = "Ok" -> IF c THEN "again" ELSE "go"

read_transaction(t, r0, tg, v) ==
    LET r == [r0 EXCEPT !.tag = tg]
        m == read_match(tg, r.conflict)
    IN
    /\ Reads(r)
    /\ r.pc = "body"
    /\ Set(t, CASE m = "nil" -> Returned(t, [r EXCEPT !.outcome = "nil"])
                [] m = "again" -> [r EXCEPT !.pc = "new"]
                [] m = "go" -> Returned(t, [r EXCEPT !.outcome = "some",
                                                     !.result = v]))
    /\ UNCHANGED <<shared, commits, nfail>>

\* on "go", lock_write_set is next; its loop follows write_set.iter(), in
\* an order that is the HashMap's choice
write_transaction(t, r0, tg, v) ==
    LET r == [r0 EXCEPT !.tag = tg]
        m == write_match(tg, r.conflict)
    IN
    /\ ~Reads(r)
    /\ r.pc = "body"
    /\ \E ord \in Perms(DOMAIN r.write_set) :
         Set(t, CASE m = "nil" -> Leave(t, [r EXCEPT !.outcome = "nil"], "idle")
                  [] m = "again" -> Leave(t, r, "new")
                  [] m = "go" ->
                       IF ord = <<>>
                       THEN [r EXCEPT !.pc = "inc", !.result = v,
                                      !.stage = {"locked"}]
                       ELSE [r EXCEPT !.pc = "lock", !.result = v,
                                      !.order = ord, !.k = 0])
    /\ UNCHANGED <<shared, commits, nfail>>

\* faulty variant: lock_addr waits until the lock bit is clear
lock_write_set_wait(t) ==
    LET r == th[t]
        a == r.order[r.k + 1]
        r1 == [r EXCEPT !.locked = Append(r.locked, a), !.k = r.k + 1,
                        !.took = r.took \cup {a}, !.held = r.held \cup {a}]
    IN
    /\ r.pc = "lock"
    /\ lock_bit(lock_ver[Stripe(a)]) = 0
    /\ lock_ver' = [lock_ver EXCEPT ![Stripe(a)] = @ + LOCK_BIT]
    /\ Set(t, IF r.k + 1 = Len(r.order)
              THEN [r1 EXCEPT !.pc = "inc", !.k = 0, !.stage = {"locked"}]
              ELSE r1)
    /\ UNCHANGED <<mem, global_clock, commits, nfail>>

\* lock_write_set: one lock_addr per step
lock_write_set(t) ==
    LET r == th[t]
        a == r.order[r.k + 1]
        w == lock_bit_setter(lock_ver[Stripe(a)])
        r1 == [r EXCEPT !.locked = Append(r.locked, a), !.k = r.k + 1,
                        !.took = r.took \cup {a}, !.held = r.held \cup {a}]
    IN
    /\ r.pc = "lock"
    /\ IF ~InRange(a)
       THEN /\ lock_ver' = lock_ver
            /\ Set(t, Panic(r, a))
       ELSE IF w # {}
       THEN /\ lock_ver' = [lock_ver EXCEPT ![Stripe(a)] = CHOOSE x \in w : TRUE]
            /\ Set(t, IF r.k + 1 = Len(r.order)
                      THEN [r1 EXCEPT !.pc = "inc", !.k = 0,
                                      !.stage = {"locked"}]
                      ELSE r1)
       ELSE /\ lock_ver' = lock_ver
            /\ Set(t, Leave(t, r, "new"))
    /\ UNCHANGED <<mem, global_clock, commits, nfail>>

\* the attempt as history records it once nothing can stop its commit
Record(r) ==
    [nv |-> r.new_version, rv |-> r.read_version,
     rs |-> r.read_set, ws |-> r.write_set, reads |-> r.vals]

\* faulty variant: commit leaves locked as it is
commit_keep(l) == l

\* self.locked.clear() in commit
commit_clear(l) == <<>>

\* commit has run: return Some(result)
AfterCommit(t, r) ==
    Leave(t, [r EXCEPT !.locked = commit_clear(r.locked), !.outcome = "some"],
          "idle")

\* line 321 let the attempt through: on to commit
Validated(t, r) ==
    LET r1 == [r EXCEPT !.stage = r.stage \cup {"validated"}, !.todo = {}] IN
    IF r.order = <<>>
    THEN AfterCommit(t, [r1 EXCEPT !.stage = r1.stage \cup {"written"}])
    ELSE [r1 EXCEPT !.pc = "commit_copy", !.k = 0, !.idx = 0]

\* line 321, left operand: somebody else moved the clock since the snapshot
clock_moved(r) == r.read_version + 1 # r.new_version

\* faulty variant: only the stripes the attempt wrote are validated
validate_addr_written(r, a) ==
    a \in DOMAIN r.write_set => get_version(a) <= r.read_version

\* validate_read_set, the test of one address of read_set
validate_addr(r, a) ==
    IF a \in DOMAIN r.write_set THEN get_version(a) <= r.read_version
    ELSE test_not_modify(a, r.read_version)

\* new_version = inc_global_clock(), and the left operand of line 321
bump(t) ==
    LET r == [th[t] EXCEPT !.new_version = inc_global_clock] IN
    /\ th[t].pc = "inc"
    /\ global_clock < MaxClock
    /\ global_clock' = inc_global_clock
    /\ IF clock_moved(r) /\ r.read_set # {}
       THEN /\ Set(t, [r EXCEPT !.pc = "validate", !.todo = r.read_set])
            /\ commits' = commits
       ELSE /\ Set(t, Validated(t, r))
            /\ commits' = commits \cup {Record(r)}
    /\ UNCHANGED <<mem, lock_ver, nfail>>

\* validate_read_set: one address of read_set per step
validate_read_set(t) ==
    LET r == th[t] IN
    /\ r.pc = "validate"
    /\ \E a \in r.todo :
         IF ~validate_addr(r, a)
         THEN /\ Set(t, Leave(t, [r EXCEPT !.todo = {}], "new"))
              /\ nfail' = nfail + 1
              /\ commits' = commits
         ELSE IF r.todo = {a}
         THEN /\ Set(t, Validated(t, r))
              /\ commits' = commits \cup {Record(r)}
              /\ nfail' = nfail
         ELSE /\ Set(t, [r EXCEPT !.todo = r.todo \ {a}])
              /\ UNCHANGED <<commits, nfail>>
    /\ UNCHANGED shared

\* commit, first loop: self.mem.mem[addr + i] = val[i], one byte per step
commit_copy(t) ==
    LET r == th[t]
        a == r.order[r.k + 1]
        r1 == IF r.idx + 1 < STRIPE_SIZE THEN [r EXCEPT !.idx = r.idx + 1]
              ELSE IF r.k + 1 < Len(r.order)
                   THEN [r EXCEPT !.idx = 0, !.k = r.k + 1]
              ELSE [r EXCEPT !.pc = "commit_publish", !.idx = 0, !.k = 0,
                             !.stage = r.stage \cup {"written"}]
    IN
    /\ r.pc = "commit_copy"
    /\ mem' = [mem EXCEPT ![a + r.idx] = r.write_set[a][r.idx]]
    /\ Set(t, r1)
    /\ UNCHANGED <<lock_ver, global_clock, commits, nfail>>

\* faulty variant: commit stores the snapshot version
publish_word_snapshot(r) == r.read_version

\* the word commit stores: version
publish_word(r) == r.new_version

\* commit, second loop: lock_ver[stripe].store(version), one per step
commit_publish(t) ==
    LET r == th[t]
        a == r.order[r.k + 1]
        r1 == [r EXCEPT !.k = r.k + 1, !.held = r.held \ {a},
                        !.clears[a] = r.clears[a] + 1]
    IN
    /\ r.pc = "commit_publish"
    /\ lock_ver' = [lock_ver EXCEPT ![Stripe(a)] = publish_word(r)]
    /\ Set(t, IF r.k + 1 = Len(r.order) THEN AfterCommit(t, r1) ELSE r1)
    /\ UNCHANGED <<mem, global_clock, commits, nfail>>

\* ------------------------------------------------------------------ clients
\* A body is a list of calls on the transaction and the tag it returns at
\* its end; as with the load! macro of main.rs, a load that returns None
\* ends the body at once, with the tag on_none.  Calls:
\* (tags and on_none list the tags a body of that shape may return.)
\*   <<"load", a>>        load(a)
\*   <<"store", a, b>>    store(a, [b; STRIPE_SIZE])
\*   <<"set", a, b>>      v = the stripe loaded from a; v[0] = b; store(a, v)
\*   <<"free", a, b>>     unless v[0] = 0 for the stripes loaded from a and
\*                        b, return Ok(false)
A0 == 0 * STRIPE_SIZE
A1 == 1 * STRIPE_SIZE

Prog(name, t) ==
    LET b == IF t = "p1" THEN 1 ELSE 2
        l == STRIPE_SIZE * (b - 1)
        rr == STRIPE_SIZE * (b % NUM_PHILOSOPHERS)
    IN CASE name = "rmw" ->      \* read both stripes, write both
              [ops |-> <<<<"load", l>>, <<"load", rr>>, <<"store", l, b>>,
                         <<"store", rr, b>>>>,
               tags |-> {"Ok"}, on_none |-> {"Retry"}]
         [] name = "skew" ->     \* read one stripe, write the other
              [ops |-> <<<<"load", l>>, <<"store", rr, b>>>>,
               tags |-> {"Ok"}, on_none |-> {"Retry"}]
         [] name = "echo" ->     \* store, store again, load what was stored
              [ops |-> <<<<"store", A0, 3>>, <<"store", A0, b>>,
                         <<"load", A0>>>>,
               tags |-> {"Ok"}, on_none |-> {"Retry"}]
         [] name = "quit" ->     \* store and load, then give up
              [ops |-> <<<<"store", A0, b>>, <<"load", A1>>>>,
               tags |-> {"Abort", "Retry"},
               on_none |-> {"Abort", "Retry", "Ok"}]
         [] name = "snap" ->     \* a reader of every stripe (check_chopsticks)
              [ops |-> <<<<"load", A0>>, <<"load", A1>>>>,
               tags |-> {"Ok"}, on_none |-> {"Retry"}]
         [] name = "peek" ->     \* a reader that gives up
              [ops |-> <<<<"load", A0>>>>,
               tags |-> {"Abort", "Retry"},
               on_none |-> {"Abort", "Retry", "Ok"}]
         [] name = "one" ->      \* store(0, [1; STRIPE_SIZE])
              [ops |-> <<<<"store", A0, 1>>>>,
               tags |-> {"Ok"}, on_none |-> {"Retry"}]
         [] name = "odd" ->      \* a load of an address inside a stripe
              [ops |-> <<<<"store", A0, b>>, <<"load", A1>>, <<"load", 1>>>>,
               tags |-> {"Ok"}, on_none |-> {"Retry"}]
         [] name = "odds" ->     \* a store to an address inside a stripe
              [ops |-> <<<<"load", A0>>, <<"store", 1, b>>>>,
               tags |-> {"Ok"}, on_none |-> {"Retry"}]
         [] name = "oddr" ->     \* a reader of an address inside a stripe
              [ops |-> <<<<"load", A0>>, <<"load", 1>>>>,
               tags |-> {"Ok"}, on_none |-> {"Retry"}]
         [] name = "far" ->      \* a store past the end of the memory
              [ops |-> <<<<"store", A0, b>>, <<"store", MEM_SIZE, b>>,
                         <<"load", MEM_SIZE>>>>,
               tags |-> {"Ok", "Abort"}, on_none |-> {"Retry", "Abort"}]
         [] name = "farl" ->     \* a load past the end of the memory
              [ops |-> <<<<"load", A0>>, <<"load", MEM_SIZE>>>>,
               tags |-> {"Ok"}, on_none |-> {"Retry", "Abort"}]
         [] name = "farr" ->     \* a reader past the end of the memory
              [ops |-> <<<<"load", A0>>, <<"load", MEM_SIZE>>>>,
               tags |-> {"Ok"}, on_none |-> {"Retry", "Abort"}]
         [] name = "pick" ->     \* pick_chopsticks
              [ops |-> <<<<"load", l>>, <<"load", rr>>, <<"free", l, rr>>,
                         <<"set", l, 1>>, <<"set", rr, 1>>>>,
               tags |-> {"Ok"}, on_none |-> {"Retry"}]
         [] name = "drop" ->     \* drop_chopsticks
              [ops |-> <<<<"load", l>>, <<"load", rr>>,
                         <<"set", l, 0>>, <<"set", rr, 0>>>>,
               tags |-> {"Ok"}, on_none |-> {"Retry"}]

Menu == {"rmw", "skew", "echo", "quit", "snap", "peek"}

\* a thread calls its driver with one of its bodies
Call(t) ==
    /\ th[t].pc = "idle"
    /\ \E name \in Menu :
         Set(t, [Idle0 EXCEPT !.pc = "new", !.prog = name])
    /\ UNCHANGED <<shared, commits, nfail>>

\* philosopher: while !write_transaction(pick).unwrap() {}; then
\* write_transaction(drop).  observer: read_transaction(check_chopsticks)
PhilCall(t) ==
    LET r == th[t]
        ph == IF t = "obs" THEN "snap"
              ELSE IF r.phase = "pick" /\ r.outcome = "some" /\ r.result
                   THEN "drop"
              ELSE "pick"
    IN /\ r.pc = "idle"
       /\ Set(t, [Idle0 EXCEPT !.pc = "new", !.prog = ph, !.phase = ph])
       /\ UNCHANGED <<shared, commits, nfail>>

\* one step of the body: its next call, or its return to the driver
Body(t) ==
    LET r == th[t]
        p == Prog(r.prog, t)
        r1 == [r EXCEPT !.bp = r.bp + 1]
        Return(tg, v) == IF Reads(r) THEN read_transaction(t, r, tg, v)
                         ELSE write_transaction(t, r, tg, v)
    IN
    /\ r.pc = "body"
    /\ IF r.ret.op = "load" /\ ~r.ret.some
       THEN \E tg \in p.on_none : Return(tg, FALSE)
       ELSE IF r.bp = Len(p.ops) THEN \E tg \in p.tags : Return(tg, TRUE)
       ELSE LET op == p.ops[r.bp + 1] IN
            CASE op[1] = "load" ->
                   IF Reads(r) THEN ReadTrans_load(t, r1, op[2])
                   ELSE WriteTrans_load(t, r1, op[2])
              [] op[1] = "store" -> WriteTrans_store(t, r1, op[2], Fill(op[3]))
              [] op[1] = "set" ->
                   WriteTrans_store(t, r1, op[2],
                                    [r.vals[op[2]] EXCEPT ![0] = op[3]])
              [] op[1] = "free" ->
                   IF r.vals[op[2]][0] = 0 /\ r.vals[op[3]][0] = 0
                   THEN Set(t, r1) /\ UNCHANGED <<shared, commits, nfail>>
                   ELSE Return("Ok", FALSE)

Engine(t) ==
    \/ ReadTrans_new(t)
    \/ WriteTrans_new(t)
    \/ load_copy(t)
    \/ load_check(t)
    \/ lock_write_set(t)
    \/ bump(t)
    \/ validate_read_set(t)
    \/ commit_copy(t)
    \/ commit_publish(t)
    \/ drop(t)

Next ==
    \E t \in Workers :
        \/ Call(t)
        \/ Body(t)
        \/ Engine(t)

Spec == Init /\ [][Next]_vars

NextPhil ==
    \E t \in Threads :
        \/ PhilCall(t)
        \/ Body(t)
        \/ Engine(t)

SpecPhil == Init /\ [][NextPhil]_vars

\* clients that break the contract on addresses, next to one that keeps it
FaultMenu == {"rmw", "odd", "odds", "oddr", "far", "farl", "farr"}

FaultCall(t) ==
    /\ th[t].pc = "idle"
    /\ \E name \in FaultMenu :
         Set(t, [Idle0 EXCEPT !.pc = "new", !.prog = name])
    /\ UNCHANGED <<shared, commits, nfail>>

NextFault ==
    \E t \in Workers :
        \/ FaultCall(t)
        \/ Body(t)
        \/ Engine(t)
        \/ unwind(t)

SpecFault == Init /\ [][NextFault]_vars

\* clients of which one may find the engine to itself: a call that begins
\* while no other thread is inside a driver call is solo until another
\* thread calls
SeqMenu == {"one", "rmw", "skew", "snap"}

SeqCall(t) ==
    /\ th[t].pc = "idle"
    /\ \E name \in SeqMenu :
         th' = [u \in Threads |->
                  IF u = t
                  THEN [Idle0 EXCEPT !.pc = "new", !.prog = name,
                                     !.solo = \A v \in Threads \ {t} :
                                                  th[v].pc = "idle"]
                  ELSE [th[u] EXCEPT !.solo = FALSE]]
    /\ UNCHANGED <<shared, commits, nfail>>

NextSeq ==
    \E t \in Workers :
        \/ SeqCall(t)
        \/ Body(t)
        \/ Engine(t)

SpecSeq == Init /\ [][NextSeq]_vars

\* two threads of which the scheduler is known to run only the first: the
\* second may be stopped for good wherever it is
AloneMenu == {"rmw", "snap"}

AloneCall(t) ==
    /\ th[t].pc = "idle"
    /\ \E name \in AloneMenu :
         Set(t, [Idle0 EXCEPT !.pc = "new", !.prog = name])
    /\ UNCHANGED <<shared, commits, nfail>>

AloneStep(t) == AloneCall(t) \/ Body(t) \/ Engine(t)

NextAlone == \E t \in Workers : AloneStep(t)

SpecAlone == Init /\ [][NextAlone]_vars /\ WF_vars(AloneStep("p1"))

\* the threads of main.rs under a fair scheduler: a thread that can take a
\* step eventually takes one
PhilStep(t) == PhilCall(t) \/ Body(t) \/ Engine(t)

SpecPhilFair == SpecPhil /\ \A t \in Threads : WF_vars(PhilStep(t))

\* ------------------------------------------------------- committed history
\* The committed attempts, run one at a time in the order of their
\* new_version, leave in stripe a, after those of new_version <= v:
SerialStripe(a, v) ==
    LET W == {c \in commits : c.nv <= v /\ a \in DOMAIN c.ws} IN
    IF W = {} THEN Zero
    ELSE (CHOOSE c \in W : \A d \in W : d.nv <= c.nv).ws[a]

MemStripe(a) == [i \in Offsets |-> mem[a + i]]

Quiet == \A t \in Threads : th[t].pc = "idle"

InCommit(t) == th[t].pc \in {"commit_copy", "commit_publish"}

\* a driver call of t has returned a value from read_transaction
ReturnedSnapshot(t) ==
    /\ th[t].pc = "idle"
    /\ Reads(th[t])
    /\ th[t].outcome = "some"

Ones(f) == Cardinality({a \in DOMAIN f : f[a][0] = 1})

\* C1: atomicity of commits as seen by readers.  The stripes a
\* read_transaction returned are those of one point of the committed
\* history (the commits up to its snapshot, each as a whole), so never the
\* post-T bytes of one stripe with the pre-T bytes of another; the
\* observer's snapshot of the chopsticks holds an even number of 1-bytes.
C1_ReaderAtomicity ==
    \A t \in Threads :
        ReturnedSnapshot(t) =>
            /\ \A a \in DOMAIN th[t].vals :
                   th[t].vals[a] = SerialStripe(a, th[t].read_version)
            /\ th[t].prog = "snap" =>
                   /\ DOMAIN th[t].vals = Addrs
                   /\ Ones(th[t].vals) % 2 = 0

\* the observer returned a snapshot with chopsticks picked up, taken after a
\* commit, while a philosopher is in the middle of publishing a commit
C1_Witness ==
    /\ ReturnedSnapshot("obs")
    /\ th["obs"].read_version >= 1
    /\ Ones(th["obs"].vals) = 2
    /\ \E t \in Workers : th[t].pc = "commit_publish" /\ th[t].k = 1

\* C2: opacity.  Every stripe an attempt has loaded from memory, whether a
\* read or a write attempt and whatever becomes of the attempt, is the whole
\* stripe as the commits up to the attempt's snapshot left it: one prefix of
\* the committed history for all its loads, no stripe half-written.
C2_Opacity ==
    \A t \in Threads :
        \A a \in DOMAIN th[t].vals :
            th[t].vals[a] = SerialStripe(a, th[t].read_version)

\* an attempt that loaded a committed (non-initial) stripe is running with
\* its conflict flag set while another thread writes a commit back
C2_Witness ==
    \E t \in Workers, u \in Workers :
        /\ t # u
        /\ th[t].pc = "body" /\ th[t].conflict
        /\ \E a \in DOMAIN th[t].vals : th[t].vals[a] # Zero
        /\ th[u].pc = "commit_copy" /\ th[u].idx = 1

\* C3: serializability in clock order.  Every committed attempt loaded what
\* the committed attempts before it in new_version order had left; once all
\* calls have returned the memory is what they leave one after the other;
\* and no attempt commits with a stripe in its read-set that another commit
\* wrote between its snapshot and its own new_version (no lost update).
C3_Serializable ==
    /\ \A c \in commits :
           \A a \in DOMAIN c.reads : c.reads[a] = SerialStripe(a, c.nv - 1)
    /\ Quiet => \A a \in Addrs : MemStripe(a) = SerialStripe(a, global_clock)
    /\ \A c \in commits, d \in commits :
           (c.rv < d.nv /\ d.nv < c.nv) => c.rs \cap DOMAIN d.ws = {}

\* two commits of different threads, the later one having loaded a stripe
\* the earlier one wrote, and all calls returned
C3_Witness ==
    /\ Quiet
    /\ \E c \in commits, d \in commits :
           /\ d.nv < c.nv
           /\ DOMAIN c.ws # {}
           /\ \E a \in (DOMAIN c.reads) \cap (DOMAIN d.ws) :
                  c.reads[a] = d.ws[a]

\* ------------------------------------------------------------------- steps
Moved(t) == th'[t] # th[t]

\* the body of t returns its tag to the driver in this step
BodyReturns(t) ==
    th[t].pc = "body" /\ th[t].tag = "none" /\ th'[t].tag # "none"

\* between two attempts, or outside a driver call
Outside(t) == th[t].pc \in {"idle", "new"}

Locked(s) == lock_bit(lock_ver[s]) = 1
Ver(w) == w % LOCK_BIT
Stripes == DOMAIN lock_ver

\* C4: lock release on every exit.  When an attempt has ended, by whatever
\* path, it holds none of the locks it set and has cleared each of them
\* exactly once (and no other); no lock is ever cleared twice by an attempt;
\* and with no attempt in flight no stripe has its lock bit set.
C4_LocksReleased ==
    /\ \A t \in Threads :
           /\ Outside(t) =>
                  /\ th[t].held = {}
                  /\ \A a \in Addrs :
                         th[t].clears[a] = IF a \in th[t].took THEN 1 ELSE 0
           /\ \A a \in Addrs : th[t].clears[a] <= 1
    /\ (\A t \in Threads : Outside(t)) => \A s \in Stripes : ~Locked(s)

\* an attempt that locked one stripe of its write-set, failed on the next
\* and has been dropped
C4_Witness ==
    \E t \in Workers :
        /\ th[t].pc = "new"
        /\ Len(th[t].locked) = 1
        /\ Cardinality(DOMAIN th[t].write_set) = 2
        /\ th[t].clears[th[t].locked[1]] = 1

Validating == Cardinality({t \in Threads : th[t].pc = "validate"})

\* C5 as stated: the clock counts the attempts that have committed (those
\* that still validate set aside)
C5_ClockCountsCommits ==
    global_clock = Cardinality(commits) + Validating

\* C5: clock advancement.  The clock is incremented exactly once per write
\* attempt that has locked its write-set, before the read-set is validated:
\* in every state it equals the number of attempts that committed plus the
\* number whose validation failed (plus those validating now); no other
\* end of an attempt changes it.
C5_ClockCountsLockedAttempts ==
    global_clock = Cardinality(commits) + nfail + Validating

\* one commit and one failed validation have moved the clock to 2, and a
\* later attempt has taken its snapshot
C5_Witness ==
    /\ Cardinality(commits) = 1
    /\ nfail = 1
    /\ global_clock = 2
    /\ \E t \in Workers : th[t].pc = "body" /\ th[t].read_version = 2

\* t takes a step inside read_transaction (its call included)
ReadStep(t) ==
    /\ Moved(t)
    /\ \/ th[t].pc # "idle" /\ Reads(th[t])
       \/ th[t].pc = "idle" /\ Reads(th'[t])

\* C6: read_transaction changes no shared state: no step of a thread inside
\* read_transaction changes the clock, a lock word or a byte of memory.
C6_ReadFrame ==
    [][\A t \in Threads : ReadStep(t) => UNCHANGED <<global_clock, lock_ver, mem>>]_vars

\* a read_transaction is about to run its body again after a conflict, with
\* a commit done and a stripe locked by the other thread
C6_Witness ==
    \E t \in Workers :
        /\ th[t].pc = "new" /\ Reads(th[t]) /\ th[t].conflict
        /\ global_clock >= 1
        /\ \E s \in Stripes : Locked(s)

\* C7: version monotonicity.  No step lowers a stripe's version; a stripe
\* whose lock bit is set after a step kept its version in it (locking), as
\* does every stripe in a step of Drop (unlocking); a step of commit that
\* publishes a stripe installs a strictly greater version.
C7_VersionMonotonic ==
    [][/\ \A s \in Stripes :
              /\ Ver(lock_ver'[s]) >= Ver(lock_ver[s])
              /\ lock_bit(lock_ver'[s]) = 1 => Ver(lock_ver'[s]) = Ver(lock_ver[s])
       /\ \A t \in Threads :
              /\ (th[t].pc = "drop" /\ Moved(t)) =>
                     \A s \in Stripes : Ver(lock_ver'[s]) = Ver(lock_ver[s])
              /\ (th[t].pc = "commit_publish" /\ Moved(t)) =>
                     LET s == Stripe(th[t].order[th[t].k + 1]) IN
                     /\ Ver(lock_ver'[s]) > Ver(lock_ver[s])
                     /\ lock_ver'[s] # lock_ver[s]
      ]_vars

\* a stripe written by the commit of version 1 now has version 2, and
\* another attempt has been dropped with a lock it held
C7_Witness ==
    /\ \E a \in Addrs :
           /\ lock_ver[Stripe(a)] = 2
           /\ \E c \in commits : c.nv = 1 /\ a \in DOMAIN c.ws
    /\ \E t \in Workers : th[t].pc = "new" /\ th[t].locked # <<>>

\* C8: read-your-own-writes.  In an attempt without conflict, a load of a
\* stripe the attempt has stored returns the value of its latest store, and
\* such a load never gets to the copy from memory.
C8_ReadOwnWrites ==
    \A t \in Threads :
        LET r == th[t] IN
        /\ (r.ret.op = "load" /\ ~r.conflict /\ r.ret.a \in DOMAIN r.last_store) =>
               /\ r.ret.some
               /\ r.ret.val = r.last_store[r.ret.a]
        /\ r.pc \in {"load_copy", "load_check"} => r.addr \notin DOMAIN r.last_store

\* a load returned the second of two stores to a stripe that the other
\* thread holds locked and whose bytes and version differ
C8_Witness ==
    \E t \in Workers :
        LET r == th[t] IN
        /\ r.ret.op = "load" /\ r.ret.some /\ r.ret.a \in DOMAIN r.last_store
        /\ r.prog = "echo"
        /\ Locked(Stripe(r.ret.a))
        /\ Ver(lock_ver[Stripe(r.ret.a)]) > r.read_version
        /\ MemStripe(r.ret.a) # r.ret.val

\* the body of t returns Abort, or Retry with the conflict flag false
Terminal(t) ==
    /\ BodyReturns(t)
    /\ \/ th'[t].tag = "Abort"
       \/ th'[t].tag = "Retry" /\ ~th[t].conflict

\* C9: terminal outcomes are not retried.  When the body returns Abort, or
\* Retry without conflict, the driver call is over in that step with nil:
\* the body does not run again, the attempt took no lock, and the clock, the
\* lock words, the memory and the committed history are unchanged.
C9_TerminalNotRetried ==
    [][\A t \in Threads :
           Terminal(t) =>
               /\ th'[t].pc = "idle"
               /\ th'[t].outcome = "nil"
               /\ th'[t].took = {}
               /\ UNCHANGED <<global_clock, lock_ver, mem, commits>>
      ]_vars

\* write_transaction returned nil for a body that stored and then returned
\* Retry, and read_transaction returned nil for a body that returned Abort
\* after a conflict
C9_Witness ==
    \E t \in Workers, u \in Workers :
        /\ th[t].pc = "idle" /\ th[t].outcome = "nil"
        /\ th[t].prog = "quit" /\ th[t].tag = "Retry"
        /\ th[u].pc = "idle" /\ th[u].outcome = "nil"
        /\ th[u].prog = "peek" /\ th[u].tag = "Abort"
        /\ global_clock >= 1

\* the attempt of t ends in this step and the loop goes round
GoesRound(t) ==
    \/ th'[t].pc = "new"
    \/ th'[t].pc = "drop" /\ th'[t].after = "new"

\* a driver call returns nil only from a body that returned Abort, or Retry
\* without conflict
NilOnlyTerminal(t) ==
    (th[t].pc # "idle" /\ th'[t].pc = "idle" /\ th'[t].outcome = "nil") =>
        Terminal(t)

\* a driver call returns a value only from an attempt whose body returned
\* Ok without conflict and, in write_transaction, that locked its
\* write-set, passed line 321 and wrote its write-set back
SomeOnlyCommitted(t) ==
    (th[t].pc # "idle" /\ th'[t].pc = "idle" /\ th'[t].outcome = "some") =>
        /\ th'[t].tag = "Ok"
        /\ ~th[t].conflict
        /\ ~Reads(th[t]) => th'[t].stage = {"locked", "validated", "written"}

\* a failed lock acquisition, a failed validation, and every Drop after them,
\* lead to the head of the loop, where a fresh transaction is made
FailureRetried(t) ==
    /\ (th[t].pc = "lock" /\ Moved(t) /\ th'[t].locked = th[t].locked) =>
           GoesRound(t)
    /\ (th[t].pc = "validate" /\ Moved(t) /\ nfail' # nfail) => GoesRound(t)
    /\ (th[t].pc = "drop" /\ Moved(t)) => th'[t].pc \in {"drop", th[t].after}
    /\ (th[t].pc = "new" /\ Moved(t)) =>
           /\ th'[t].pc = "body"
           /\ th'[t].read_version = global_clock
           /\ th'[t].read_set = {} /\ th'[t].write_set = Empty
           /\ th'[t].locked = <<>> /\ ~th'[t].conflict

\* C10 as stated: a conflict during load always leads to a fresh attempt
C10_ConflictAlwaysRetried ==
    [][\A t \in Threads :
           /\ NilOnlyTerminal(t)
           /\ SomeOnlyCommitted(t)
           /\ FailureRetried(t)
           /\ (BodyReturns(t) /\ th[t].conflict) => GoesRound(t)
      ]_vars

\* C10: conflicts are never surfaced.  nil comes only from Abort or from
\* Retry without conflict, a value only from an attempt that went through;
\* a failed lock acquisition or validation always leads to a fresh attempt,
\* and so does a conflict during load unless the body then returns Abort.
C10_ConflictsNotSurfaced ==
    [][\A t \in Threads :
           /\ NilOnlyTerminal(t)
           /\ SomeOnlyCommitted(t)
           /\ FailureRetried(t)
           /\ (BodyReturns(t) /\ th[t].conflict /\ th'[t].tag # "Abort") =>
                  GoesRound(t)
      ]_vars

\* an attempt whose validation failed is about to be run again, and the
\* other thread is about to run again a body that returned Ok after a
\* conflict
C10_Witness ==
    \E t \in Workers, u \in Workers :
        /\ th[t].pc = "new" /\ "locked" \in th[t].stage /\ th[t].todo = {}
        /\ th[t].locked # <<>> /\ nfail >= 1
        /\ th[u].pc = "new" /\ th[u].conflict /\ th[u].tag = "Ok"

\* ------------------------------------------------------------ non-blocking
\* t is stopped by the cap of the clock, not by another thread
Capped(t) == th[t].pc = "inc" /\ global_clock >= MaxClock

\* t holds a lock and its next lock_addr is for a stripe that another
\* thread holds
Contends(t) ==
    /\ th[t].pc = "lock" /\ th[t].locked # <<>>
    /\ \E u \in Threads \ {t} : th[t].order[th[t].k + 1] \in th[u].held

\* the lock_addr of t fails in this step
LockFails(t) ==
    /\ th[t].pc = "lock" /\ Moved(t)
    /\ th'[t].locked = th[t].locked

\* C11: no deadlock, because nothing blocks.  Every thread inside a driver
\* call has an enabled step whatever locks the others hold (the cap of the
\* clock aside); a lock_addr that fails changes no lock word and ends the
\* attempt, with Drop next for every lock the attempt holds, and Drop
\* itself is never stopped; so two threads that each hold a lock the other
\* asks for both go on.
C11_NoDeadlock ==
    /\ [](\A t \in Threads :
             /\ (th[t].pc # "idle" /\ ~Capped(t)) => ENABLED (Body(t) \/ Engine(t))
             /\ th[t].pc = "drop" =>
                    /\ th[t].k < Len(th[t].locked)
                    /\ th[t].held = {th[t].locked[i] : i \in (th[t].k + 1)..Len(th[t].locked)})
    /\ [][\A t \in Threads :
             LockFails(t) =>
                 /\ lock_ver' = lock_ver
                 /\ IF th[t].locked = <<>> THEN th'[t].pc = "new"
                    ELSE th'[t].pc = "drop" /\ th'[t].after = "new" /\ th'[t].k = 0
          ]_vars

\* two threads each hold one stripe and are about to ask for the stripe the
\* other holds
C11_Witness ==
    \E t \in Workers, u \in Workers : t # u /\ Contends(t) /\ Contends(u)

\* ----------------------------------------------------------------- progress
\* the attempt of t is over: the loop of the driver is at its head again, or
\* the call has returned
AttemptOver(t) == th[t].pc \in {"new", "idle"}

\* t failed to lock its write-set and is releasing what it had locked
LostRound(t) ==
    /\ th[t].pc = "drop" /\ th[t].after = "new" /\ th[t].stage = {}

\* another thread holds the lock of stripe address a
HeldByOther(t, a) == \E u \in Threads \ {t} : a \in th[u].held

\* stripe address a is locked by another thread, or was committed to after
\* the snapshot of t
LostTo(t, a) ==
    \/ HeldByOther(t, a)
    \/ /\ get_version(a) > th[t].read_version
       /\ \E c \in commits : c.nv = get_version(a) /\ a \in DOMAIN c.ws

\* every way an attempt of t is given up in this step has its cause in the
\* other threads
LosesOnlyToOthers(t) ==
    /\ LockFails(t) => HeldByOther(t, th[t].order[th[t].k + 1])
    /\ (Moved(t) /\ ~th[t].conflict /\ th'[t].conflict) =>
           \E a \in Addrs : th'[t].ret = RetNone(a) /\ LostTo(t, a)
    /\ (th[t].pc = "validate" /\ Moved(t) /\ nfail' # nfail) =>
           \E a \in th[t].read_set : LostTo(t, a)

\* C12 as stated: the writers commit (here: at least once, so that the
\* clock, which every commit moves, leaves 0)
C12_WritersCommit == <>(global_clock > 0)

\* C12: contention does not deadlock, but progress is not promised.  Under
\* a fair scheduler every attempt of a writer or of the reader is over
\* after finitely many steps (committed or returned, or given up with a
\* fresh attempt next; the cap of the clock aside): each thread is again
\* and again between two attempts, none stays in one; and an attempt is given
\* up only because another thread holds the lock of a stripe it needs or
\* has committed to one since its snapshot.
C12_AttemptsEnd ==
    /\ \A t \in Threads : []<>(AttemptOver(t) \/ Capped(t))
    /\ [][\A t \in Threads : LosesOnlyToOthers(t)]_vars

\* both writers have lost the same round, each holding the stripe the other
\* failed on, while the reader runs with a conflict
C12_Witness ==
    /\ \A t \in Workers : LostRound(t) /\ th[t].k = 0 /\ th[t].prog = "pick"
    /\ th["obs"].pc = "body" /\ th["obs"].conflict

\* ------------------------------------------------------ contract violations
\* the body of t makes its next call on the transaction in this step
CallsOp(t) ==
    /\ th[t].pc = "body" /\ Moved(t)
    /\ ~(th[t].ret.op = "load" /\ ~th[t].ret.some)
    /\ th[t].bp < Len(Prog(th[t].prog, t).ops)

Op(t) == Prog(th[t].prog, t).ops[th[t].bp + 1]

\* ... a load or a store, with an address that is not a multiple of
\* STRIPE_SIZE
MisalignedCall(t) ==
    /\ CallsOp(t)
    /\ Op(t)[1] \in {"load", "store"}
    /\ Op(t)[2] % STRIPE_SIZE # 0

\* C13: misaligned access fails fast and harmlessly.  A load or store of
\* either transaction with an address that is not a multiple of the stripe
\* size panics (neither a value nor nil) with the conflict flag, read-set,
\* write-set and locked list as they were and with memory, lock words and
\* clock unchanged; the panic leaves the driver call at once, no lock
\* held; and the engine goes on as before: with no attempt in flight no
\* lock bit is set and the memory is what the commits leave one after the
\* other.
C13_MisalignedFailsFast ==
    /\ [][\A t \in Threads :
             /\ MisalignedCall(t) =>
                    /\ th'[t].pc = "panic"
                    /\ th'[t].ret = RetPanic(Op(t)[2])
                    /\ th'[t].conflict = th[t].conflict
                    /\ th'[t].read_set = th[t].read_set
                    /\ th'[t].write_set = th[t].write_set
                    /\ th'[t].locked = th[t].locked
                    /\ UNCHANGED <<mem, lock_ver, global_clock, commits>>
             /\ (th[t].pc = "panic" /\ Moved(t) /\ th[t].ret.a % STRIPE_SIZE # 0) =>
                    /\ th'[t].pc = "idle"
                    /\ th'[t].outcome = "panic"
                    /\ th'[t].held = {} /\ th'[t].took = {}
                    /\ UNCHANGED <<mem, lock_ver, global_clock, commits>>
          ]_vars
    /\ []((\A t \in Threads : Outside(t)) => \A x \in Stripes : ~Locked(x))
    /\ [](Quiet => \A a \in Addrs : MemStripe(a) = SerialStripe(a, global_clock))

\* a load inside a stripe has panicked in an attempt that had stored and
\* loaded, while the other thread writes a commit back; the first thread's
\* earlier call ended the same way
C13_Witness ==
    \E t \in Workers, u \in Workers :
        /\ th[t].pc = "panic" /\ th[t].ret.a = 1
        /\ th[t].write_set # Empty /\ th[t].read_set # {}
        /\ th[u].pc = "commit_copy"
        /\ global_clock >= 1

\* ... a load or a store, with a multiple of STRIPE_SIZE that is not less
\* than MEM_SIZE
OutOfRangeCall(t) ==
    /\ CallsOp(t)
    /\ Op(t)[1] \in {"load", "store"}
    /\ Op(t)[2] % STRIPE_SIZE = 0
    /\ Op(t)[2] >= MEM_SIZE

\* the driver call of t returns nil or a value in this step
ReturnsNormally(t) ==
    /\ th[t].pc # "idle" /\ th'[t].pc = "idle"
    /\ th'[t].outcome \in {"nil", "some"}

\* C14: out-of-range access fails fast.  A load or store with a stripe-
\* aligned address that is not less than MEM_SIZE panics in that call, and
\* an attempt whose body made such a call neither returns nil or a value
\* from the driver nor commits.
C14_OutOfRangeFailsFast ==
    /\ [][\A t \in Threads :
             /\ OutOfRangeCall(t) => th'[t].pc = "panic"
             /\ ReturnsNormally(t) =>
                    \A a \in th[t].read_set \cup DOMAIN th[t].write_set :
                        a < MEM_SIZE
          ]_vars
    /\ [](\A c \in commits : \A a \in c.rs \cup DOMAIN c.ws : a < MEM_SIZE)

\* --------------------------------------------------------------- sequential
\* t takes a step in a driver call that has had the engine to itself (the
\* call of another thread ends that, and is no step of t)
SoloStep(t) ==
    /\ th[t].pc # "idle" /\ Moved(t)
    /\ th[t].solo /\ th'[t].solo

\* the only driver calls so far are those of t, one after the other
OnlyCaller(t) == \A u \in Threads \ {t} : th[u] = Idle0

\* C15: sequential behaviour.  A write_transaction that runs while no other
\* thread is inside a driver call, with a body that returns Ok(v), runs the
\* body once (no step leads back to the head of the loop), and its return
\* gives v with the clock at its snapshot plus 1, every stripe of the
\* write-set holding the stored bytes under the new version, and no lock
\* set; a load from memory in a call that runs alone returns what the
\* latest commit stored there.  On a fresh engine, after store(0, [1; S])
\* alone the clock is 1 and stripe 0 holds [1; S].
C15_Sequential ==
    /\ [][\A t \in Threads :
             /\ SoloStep(t) => ~GoesRound(t)
             /\ (SoloStep(t) /\ ~Reads(th[t]) /\ th'[t].pc = "idle"
                     /\ th'[t].tag = "Ok") =>
                    /\ th'[t].outcome = "some" /\ th'[t].result
                    /\ global_clock' = th[t].read_version + 1
                    /\ \A a \in DOMAIN th[t].write_set :
                           /\ [i \in Offsets |-> mem'[a + i]] = th[t].write_set[a]
                           /\ lock_ver'[Stripe(a)] = global_clock'
                    /\ \A x \in Stripes : lock_bit(lock_ver'[x]) = 0
             /\ (SoloStep(t) /\ th[t].pc = "load_check") =>
                    /\ th'[t].ret = RetSome(th[t].addr, MemStripe(th[t].addr))
                    /\ th'[t].ret.val = SerialStripe(th[t].addr, global_clock)
          ]_vars
    /\ [](\A t \in Threads :
             (OnlyCaller(t) /\ th[t].pc = "idle" /\ th[t].prog = "one"
                 /\ Cardinality(commits) = 1) =>
                 /\ th[t].outcome = "some"
                 /\ global_clock = 1
                 /\ MemStripe(A0) = Fill(1))

\* on an engine that only one thread has used, a read_transaction has
\* returned [1; S] for stripe 0 with the clock at 1: the store of the call
\* before it
C15_Witness ==
    \E t \in Workers :
        /\ OnlyCaller(t)
        /\ th[t].pc = "idle" /\ th[t].prog = "snap" /\ th[t].solo
        /\ th[t].outcome = "some"
        /\ th[t].vals[A0] = Fill(1) /\ th[t].vals[A1] = Zero
        /\ global_clock = 1

\* ---------------------------------------------------------------- ownership
InFlight(t) == th[t].pc \notin {"idle", "new"}

Range(q) == {q[i] : i \in DOMAIN q}

\* the attempts in flight that have stripe address a in their locked list
Listing(a) == {t \in Threads : InFlight(t) /\ a \in Range(th[t].locked)}

\* the attempts that have set the lock bit of a and not yet cleared it
Holders(a) == {t \in Threads : a \in th[t].held}

\* the part of its locked list whose lock an attempt has not yet cleared:
\* Drop and the second loop of commit clear the locks one by one and leave
\* the list as it is until they are through
StillLocked(t) ==
    LET r == th[t] IN
    CASE r.pc = "drop" -> {r.locked[i] : i \in (r.k + 1)..Len(r.locked)}
      [] r.pc = "commit_publish" -> {r.order[i] : i \in (r.k + 1)..Len(r.order)}
      [] r.pc \in {"idle", "new"} -> {}
      [] OTHER -> Range(r.locked)

\* C16 as stated: the lock bit of a stripe is set if and only if exactly
\* one attempt in flight has the stripe in its locked list
C16_LockedIffListed ==
    \A a \in Addrs : Locked(Stripe(a)) <=> Cardinality(Listing(a)) = 1

\* C16: lock ownership and exclusive write-back.  The lock bit of a stripe
\* is set if and only if exactly one attempt in flight has set it and not
\* yet cleared it; that attempt has the stripe in its locked list (the list
\* also keeps the stripes whose lock the attempt has already cleared, until
\* the loop of commit or of Drop is through).  No two attempts hold a
\* stripe at once, a lock bit is cleared only by a step of its holder, and
\* the bytes and the version of a stripe change only in a step of the
\* commit of its holder.
C16_LockOwnership ==
    /\ [](\A a \in Addrs :
             /\ Locked(Stripe(a)) <=> Cardinality(Holders(a)) = 1
             /\ Cardinality(Holders(a)) <= 1
             /\ \A t \in Threads :
                    /\ th[t].held = StillLocked(t)
                    /\ InFlight(t) => th[t].held \subseteq Range(th[t].locked))
    /\ [][\A a \in Addrs :
             /\ (Locked(Stripe(a)) /\ ~Locked(Stripe(a))') =>
                    \E t \in Holders(a) : Moved(t) /\ a \notin th'[t].held
             /\ (MemStripe(a)' # MemStripe(a)
                    \/ Ver(lock_ver'[Stripe(a)]) # Ver(lock_ver[Stripe(a)])) =>
                    \E t \in Holders(a) : Moved(t) /\ InCommit(t)
          ]_vars

\* a commit has published the first of its two stripes and still lists it,
\* and the other thread has locked that stripe
C16_Witness ==
    \E t \in Workers, u \in Workers :
        /\ t # u
        /\ th[t].pc = "commit_publish" /\ th[t].k = 1
        /\ th[t].order[1] \in Range(th[t].locked)
        /\ th[t].order[1] \in th[u].held

\* ------------------------------------------------------------ no write-back
\* the attempt of t has not passed line 321
Unvalidated(t) == "validated" \notin th[t].stage

SameVersions == \A x \in Stripes : Ver(lock_ver'[x]) = Ver(lock_ver[x])

\* C17: a write attempt that does not commit writes nothing.  No step of an
\* attempt that has not passed validation (the body with its stores and
\* loads, the return of Abort or Retry, a load conflict, lock_write_set,
\* the clock, validate_read_set, Drop) changes a byte of memory or the
\* version of a stripe; while such an attempt holds the lock of a stripe
\* nobody changes the bytes or the version of that stripe, and Drop clears
\* the lock bit alone, so the stripe is left with the version it had when
\* it was locked.  Memory changes only in the first loop of commit, after
\* validation, and then to the bytes of the write-set.
C17_NoCommitNoWrite ==
    [][/\ \A t \in Threads :
             /\ (Moved(t) /\ Unvalidated(t)) => (mem' = mem /\ SameVersions)
             /\ Unvalidated(t) =>
                    \A a \in th[t].held :
                        /\ Ver(lock_ver'[Stripe(a)]) = Ver(lock_ver[Stripe(a)])
                        /\ MemStripe(a)' = MemStripe(a)
             /\ (Moved(t) /\ th[t].pc = "drop") =>
                    \A x \in Stripes :
                        lock_ver'[x] \in {lock_ver[x], lock_ver[x] - LOCK_BIT}
       /\ mem' # mem =>
             \E t \in Threads :
                 /\ Moved(t) /\ th[t].pc = "commit_copy" /\ ~Unvalidated(t)
                 /\ \A a \in Addrs :
                        MemStripe(a)' # MemStripe(a) => a \in DOMAIN th[t].write_set
                 /\ \A b \in ByteAddrs :
                        mem'[b] # mem[b] =>
                            mem'[b] = th[t].write_set[b - (b % STRIPE_SIZE)][b % STRIPE_SIZE]
      ]_vars

\* an attempt stored to two stripes, locked them, failed validation and was
\* dropped: the stripes are unlocked, one of them under the version the
\* other thread's commit gave it, and the memory does not hold the stores
C17_Witness ==
    \E t \in Workers :
        /\ th[t].pc = "new" /\ "locked" \in th[t].stage /\ Unvalidated(t)
        /\ Cardinality(th[t].took) = 2
        /\ \A a \in th[t].took :
               ~Locked(Stripe(a)) /\ MemStripe(a) # th[t].write_set[a]
        /\ \E a \in th[t].took : lock_ver[Stripe(a)] = 1

\* ------------------------------------------------------------- pure readers
\* t takes a step of a write_transaction attempt whose body has only loaded
\* and has returned Ok
PureReaderStep(t) ==
    /\ Moved(t)
    /\ ~Reads(th[t]) /\ InFlight(t)
    /\ th[t].tag = "Ok" /\ ~th[t].conflict
    /\ th[t].write_set = Empty /\ th[t].read_set # {}

\* C18: a pure reader run through write_transaction does not advance the
\* clock: no step of a write_transaction attempt whose body only loaded and
\* returned Ok changes the clock, a lock word or a byte of memory.
C18_PureReaderKeepsClock ==
    [][\A t \in Threads :
           PureReaderStep(t) => UNCHANGED <<global_clock, lock_ver, mem>>]_vars

\* ------------------------------------------------------- obstruction-freedom
\* every step is a step of t
Alone(t) == \A u \in Threads \ {t} : th'[u] = th[u]

\* the calls of t return again and again (t is stopped by the cap of the
\* clock at most)
KeepsReturning(t) == []<>(th[t].pc = "idle" \/ Capped(t))

\* C19 as stated: from wherever the other thread is stopped for good, the
\* calls of the thread that runs alone return
C19_ObstructionFree ==
    (<>[][Alone("p1")]_vars) => KeepsReturning("p1")

\* C19: a thread that runs alone returns from its call after finitely many
\* of its steps provided the thread that was stopped holds no lock; stopped
\* between lock_write_set and the release of its locks, it keeps every
\* attempt that loads or stores one of these stripes from going through.
C19_ReturnsUnlessLockHeld ==
    (<>[][Alone("p1")]_vars /\ <>[](\A u \in Threads \ {"p1"} : th[u].held = {}))
        => KeepsReturning("p1")

\* a call that wrote both stripes has committed and returned after the
\* snapshot of the other thread, which is in the middle of the copy of a
\* stripe and holds no lock
C19_Witness ==
    /\ th["p1"].pc = "idle" /\ th["p1"].outcome = "some" /\ th["p1"].prog = "rmw"
    /\ th["p2"].pc = "load_copy" /\ th["p2"].idx = 1 /\ th["p2"].held = {}
    /\ \E c \in commits : c.nv > th["p2"].read_version /\ c.ws # Empty

\* ---------------------------------------------------------- memory ordering
AcquireOrStronger == {"Acquire", "AcqRel", "SeqCst"}

\* C20: the memory-ordering contract of the lock.  A lock_addr that
\* succeeds has acquire-or-stronger ordering; the snapshot of the clock is
\* an acquire load; a release fence lies between the write-back and the
\* publication of the version; the relaxed loads of the lock word in load
\* have an acquire fence before the copy and a sequentially consistent one
\* after it; and a load that returns bytes under the version it observed
\* returns the bytes of the commit of that version.
C20_OrderingContract ==
    [][\A t \in Threads :
           /\ (th[t].pc = "lock" /\ Moved(t) /\ th'[t].locked # th[t].locked) =>
                  lock_addr_ordering \in AcquireOrStronger
           /\ (th[t].pc = "new" /\ Moved(t)) => snapshot_ordering = "Acquire"
           /\ (th[t].pc = "commit_copy" /\ th'[t].pc = "commit_publish") =>
                  commit_fence = "Release"
           /\ (th[t].pc = "load_check" /\ Moved(t) /\ th'[t].ret.some) =>
                  /\ lock_word_load_ordering = "Relaxed"
                  /\ load_fences = <<"Acquire", "SeqCst">>
                  /\ th'[t].ret.val = SerialStripe(th[t].addr, get_version(th[t].addr))
      ]_vars

====
